---- MODULE Spec2Model ----
(***************************************************************************)
(* Model of the cells codec layer: the raw value format (api_version),     *)
(* the status code register (api_version/status_code) and the number       *)
(* codec (cells_utils/codec/number).                                       *)
(*                                                                         *)
(* Representation.  A u64 is a tuple of four 16-bit limbs, most            *)
(* significant first (TLC's integers are 32 bits wide); a byte is a        *)
(* number in 0..255 and a byte string a sequence of bytes.  Option and     *)
(* Result values are tagged records.                                       *)
(***************************************************************************)
EXTENDS Integers, Sequences, FiniteSets, TLC

VARIABLES
  \* raw value format: the value to write, the two encoders' outputs, the
  \* bytes last handed to the decoder and what it returned
  value, encoded, encodedOwned, input, result,
  \* status code: a plain integer, the register, the integer last read from
  \* it, the last operation, the register before it, and every system bit
  \* the register has held
  plain, reg, code, op, prev, seen,
  \* number codec, one value at a time: two numbers of one type, their
  \* encodings into empty buffers, and the first one decoded back
  na, nb, ea, eb, da,
  \* number codec, one buffer: the values written so far, the buffer, the
  \* phase, the read cursor, the cursor before the last read, the last
  \* read's type and result, the count of successful reads, and whether
  \* every read so far asked for the types in the order they were written
  written, sink, pc, cursor, before, last, nread, inOrder

rawVars == <<value, encoded, encodedOwned, input, result>>
stVars == <<plain, reg, code, op, prev, seen>>
numVars == <<na, nb, ea, eb, da>>
curVars == <<written, sink, pc, cursor, before, last, nread, inOrder>>
vars == <<rawVars, stVars, numVars, curVars>>

\* ------------------------------------------------------------------------
\* Bounds
\* ------------------------------------------------------------------------

\* Longest user payload, in bytes.
MaxPayloadLen == 2

\* Most values written back-to-back into one buffer.
MaxVals == 2

\* ------------------------------------------------------------------------
\* Option / Result
\* ------------------------------------------------------------------------

None == [tag |-> "None"]
Some(x) == [tag |-> "Some", val |-> x]
Ok(x) == [tag |-> "Ok", val |-> x]
EncoderUnexpectedEOF == [tag |-> "Err", err |-> "EncoderUnexpectedEOF"]
Panic == [tag |-> "Panic"]

\* Option::unwrap_or_default / Result::unwrap_or_default, d the type's default
unwrap_or_default(r, d) == IF r.tag \in {"Some", "Ok"} THEN r.val ELSE d

\* usize::checked_sub
checked_sub_saturating(a, b) == Some(IF a >= b THEN a - b ELSE 0)
checked_sub(a, b) == IF a >= b THEN Some(a - b) ELSE None

\* &bytes[lo..hi]: the bytes at offsets lo..hi-1, a panic when out of range
Slice(bytes, lo, hi) ==
  IF lo <= hi /\ hi <= Len(bytes) THEN Some(SubSeq(bytes, lo + 1, hi)) ELSE Panic

\* ------------------------------------------------------------------------
\* 16-bit limbs and 64-bit words
\* ------------------------------------------------------------------------

\* 2^16 - 1
LimbMax == 65536 - 1

RECURSIVE BitAnd(_, _)
BitAnd(a, b) ==
  IF a = 0 \/ b = 0 THEN 0
  ELSE (a % 2) * (b % 2) + 2 * BitAnd(a \div 2, b \div 2)

RECURSIVE BitOr(_, _)
BitOr(a, b) ==
  IF a = 0 THEN b
  ELSE IF b = 0 THEN a
  ELSE (IF a % 2 = 1 \/ b % 2 = 1 THEN 1 ELSE 0) + 2 * BitOr(a \div 2, b \div 2)

RECURSIVE BitXor(_, _)
BitXor(a, b) ==
  IF a = 0 THEN b
  ELSE IF b = 0 THEN a
  ELSE (IF a % 2 # b % 2 THEN 1 ELSE 0) + 2 * BitXor(a \div 2, b \div 2)

And64(x, y) == [i \in 1..4 |-> BitAnd(x[i], y[i])]
Or64(x, y) == [i \in 1..4 |-> BitOr(x[i], y[i])]
Xor64(x, y) == [i \in 1..4 |-> BitXor(x[i], y[i])]
Not64(x) == [i \in 1..4 |-> LimbMax - x[i]]

Zero64 == <<0, 0, 0, 0>>

\* ------------------------------------------------------------------------
\* codec/number.rs
\*
\* Numbers.  u16 and i16 and i32 are integers; u32 is two limbs and u64
\* four, most significant first; i64 is a sign and a magnitude (its value
\* is -mag when neg, mag otherwise); a float is its sign, its biased
\* exponent and its mantissa (an f32's an integer below 2^23, an f64's a
\* 4-bit limb followed by three 16-bit limbs).
\* ------------------------------------------------------------------------

SIGN_MARK == <<32768, 0, 0, 0>>
U64_SIZE == 8

\* u64 + 1, wrapping
Inc64(w) ==
  LET c4 == IF w[4] = LimbMax THEN 1 ELSE 0
      c3 == IF c4 = 1 /\ w[3] = LimbMax THEN 1 ELSE 0
      c2 == IF c3 = 1 /\ w[2] = LimbMax THEN 1 ELSE 0
  IN <<(w[1] + c2) % 65536, (w[2] + c3) % 65536, (w[3] + c4) % 65536,
       (w[4] + 1) % 65536>>

\* v as u64, u as i64: the two's complement reinterpretation
as_u64(v) == IF v.neg THEN Inc64(Not64(v.mag)) ELSE v.mag
as_i64(u) ==
  IF u[1] >= 32768 THEN [neg |-> TRUE, mag |-> Inc64(Not64(u))]
  ELSE [neg |-> FALSE, mag |-> u]

\* f64::to_bits, f64::from_bits, f64::is_sign_positive
f64_to_bits(v) ==
  <<(IF v.neg THEN 32768 ELSE 0) + v.exp * 16 + v.mant[1], v.mant[2], v.mant[3],
    v.mant[4]>>
f64_from_bits(u) ==
  [neg |-> u[1] >= 32768, exp |-> (u[1] % 32768) \div 16,
   mant |-> <<u[1] % 16, u[2], u[3], u[4]>>]
is_sign_positive(v) == ~v.neg

\* f32::to_bits, f32::from_bits, as two limbs
f32_to_bits(v) ==
  <<(IF v.neg THEN 32768 ELSE 0) + v.exp * 128 + v.mant \div 65536, v.mant % 65536>>
f32_from_bits(u) ==
  [neg |-> u[1] >= 32768, exp |-> (u[1] % 32768) \div 128,
   mant |-> (u[1] % 128) * 65536 + u[2]]

order_encode_i64(v) == Xor64(as_u64(v), SIGN_MARK)

order_decode_i64(u) == as_i64(Xor64(u, SIGN_MARK))

order_encode_f64_signflip(v) == Xor64(f64_to_bits(v), SIGN_MARK)
order_encode_f64(v) ==
  LET u == f64_to_bits(v) IN
  IF is_sign_positive(v) THEN Or64(u, SIGN_MARK) ELSE Not64(u)

order_decode_f64(u) ==
  LET w == IF And64(u, SIGN_MARK) # Zero64 THEN And64(u, Not64(SIGN_MARK))
           ELSE Not64(u)
  IN f64_from_bits(w)

\* byteorder: BigEndian and LittleEndian writes and reads
BigEndian_write_u64(v) ==
  <<v[1] \div 256, v[1] % 256, v[2] \div 256, v[2] % 256,
    v[3] \div 256, v[3] % 256, v[4] \div 256, v[4] % 256>>
BigEndian_read_u64(b) ==
  <<b[1] * 256 + b[2], b[3] * 256 + b[4], b[5] * 256 + b[6], b[7] * 256 + b[8]>>

BigEndian_write_u32(v) == <<v[1] \div 256, v[1] % 256, v[2] \div 256, v[2] % 256>>
BigEndian_read_u32(b) == <<b[1] * 256 + b[2], b[3] * 256 + b[4]>>

BigEndian_write_u16(v) == <<v \div 256, v % 256>>
BigEndian_read_u16(b) == b[1] * 256 + b[2]

LittleEndian_write_i32(v) ==
  <<v % 256, (v \div 256) % 256, (v \div 65536) % 256, (v \div 16777216) % 256>>
LittleEndian_read_i32(b) ==
  b[1] + b[2] * 256 + b[3] * 65536
    + (IF b[4] >= 128 THEN b[4] - 256 ELSE b[4]) * 16777216

LittleEndian_write_f32(v) ==
  LET u == f32_to_bits(v) IN <<u[2] % 256, u[2] \div 256, u[1] % 256, u[1] \div 256>>
LittleEndian_read_f32(b) == f32_from_bits(<<b[4] * 256 + b[3], b[2] * 256 + b[1]>>)

LittleEndian_write_i16(v) == <<v % 256, (v \div 256) % 256>>
LittleEndian_read_i16(b) ==
  b[1] + (IF b[2] >= 128 THEN b[2] - 256 ELSE b[2]) * 256

\* NumberEncoder on a Vec<u8> sink, which never refuses a write: the sink
\* after the write.
encode_u64(buf, v) == buf \o BigEndian_write_u64(v)
encode_i64(buf, v) == encode_u64(buf, order_encode_i64(v))
encode_f64(buf, f) == encode_u64(buf, order_encode_f64(f))
encode_u32(buf, v) == buf \o BigEndian_write_u32(v)
encode_i32_be(buf, v) ==
  LET b == LittleEndian_write_i32(v) IN buf \o <<b[4], b[3], b[2], b[1]>>
encode_i32(buf, v) == buf \o LittleEndian_write_i32(v)
encode_f32(buf, v) == buf \o LittleEndian_write_f32(v)
encode_u16(buf, v) == buf \o BigEndian_write_u16(v)
encode_i16(buf, v) == buf \o LittleEndian_write_i16(v)

\* The reader takes size bytes off the front of the cursor and hands them
\* to the byte-order read f, or fails and leaves the cursor as it was.  Here
\* it returns the bytes taken; each decoder applies its own f to them.
read_num_bytes_stuck(size, data) ==
  IF Len(data) >= size
    THEN [res |-> Ok(SubSeq(data, 1, size)), data |-> data]
    ELSE [res |-> EncoderUnexpectedEOF, data |-> data]
read_num_bytes(size, data) ==
  IF Len(data) >= size
    THEN [res |-> Ok(SubSeq(data, 1, size)),
          data |-> SubSeq(data, size + 1, Len(data))]
    ELSE [res |-> EncoderUnexpectedEOF, data |-> data]

decode_u64(data) ==
  LET r == read_num_bytes(8, data) IN
  IF r.res.tag = "Ok" THEN [res |-> Ok(BigEndian_read_u64(r.res.val)), data |-> r.data] ELSE r

decode_i64(data) ==
  LET r == decode_u64(data) IN
  IF r.res.tag = "Ok" THEN [res |-> Ok(order_decode_i64(r.res.val)), data |-> r.data] ELSE r

decode_f64(data) ==
  LET r == decode_u64(data) IN
  IF r.res.tag = "Ok" THEN [res |-> Ok(order_decode_f64(r.res.val)), data |-> r.data] ELSE r

decode_u32(data) ==
  LET r == read_num_bytes(4, data) IN
  IF r.res.tag = "Ok" THEN [res |-> Ok(BigEndian_read_u32(r.res.val)), data |-> r.data] ELSE r

decode_i32(data) ==
  LET r == read_num_bytes(4, data) IN
  IF r.res.tag = "Ok" THEN [res |-> Ok(LittleEndian_read_i32(r.res.val)), data |-> r.data] ELSE r

decode_f32(data) ==
  LET r == read_num_bytes(4, data) IN
  IF r.res.tag = "Ok" THEN [res |-> Ok(LittleEndian_read_f32(r.res.val)), data |-> r.data] ELSE r

decode_u16(data) ==
  LET r == read_num_bytes(2, data) IN
  IF r.res.tag = "Ok" THEN [res |-> Ok(BigEndian_read_u16(r.res.val)), data |-> r.data] ELSE r

decode_i16(data) ==
  LET r == read_num_bytes(2, data) IN
  IF r.res.tag = "Ok" THEN [res |-> Ok(LittleEndian_read_i16(r.res.val)), data |-> r.data] ELSE r

\* ------------------------------------------------------------------------
\* status_code.rs
\* ------------------------------------------------------------------------

\* StatusCode { bits }
StatusCode(w) == [bits |-> w]

SYSTEM_STATUS_MASK == StatusCode(<<65535, 65535, 0, 0>>)
USER_STATUS_MASK_short == StatusCode(<<0, 0, 32767, 65535>>)
USER_STATUS_MASK == StatusCode(<<0, 0, 65535, 65535>>)
IS_ERROR == StatusCode(<<32768, 0, 0, 0>>)
IS_UNCERTAIN == StatusCode(<<16384, 0, 0, 0>>)
GOOD == StatusCode(Zero64)
\* The deletion marker: a system-segment flag.
IS_TOMBSTONE == StatusCode(<<8192, 0, 0, 0>>)

\* bitflags: bits(), &, |, contains, insert
bits(s) == s.bits
BitAndStatus(s, t) == StatusCode(And64(s.bits, t.bits))
BitOrStatus(s, t) == StatusCode(Or64(s.bits, t.bits))
contains(s, f) == And64(s.bits, f.bits) = f.bits
insert(s, f) == BitOrStatus(s, f)

user_status(s) == BitAndStatus(s, USER_STATUS_MASK)
system_status(s) == BitAndStatus(s, SYSTEM_STATUS_MASK)

is_bad(s) == contains(s, IS_ERROR)
is_uncertain(s) == contains(s, IS_UNCERTAIN)
is_good(s) == ~is_bad(s) /\ ~is_uncertain(s)
is_tombstone(s) == contains(s, IS_TOMBSTONE)

clear_all(s) == GOOD
clear(s) == BitAndStatus(s, SYSTEM_STATUS_MASK)

\* impl From<u64> for StatusCode
StatusCode_from_masked(v) == StatusCode(And64(v, USER_STATUS_MASK.bits))
StatusCode_from(v) == StatusCode(v)

\* impl From<StatusCode> for u64
u64_from_bits(status) == bits(status)
u64_from(status) == bits(user_status(status))

\* ------------------------------------------------------------------------
\* lib.rs: RawValue and the ApiV1 format
\* ------------------------------------------------------------------------

RawValue(user_value, ts, status, tombstone) ==
  [user_value |-> user_value, ts |-> ts, status |-> status, tombstone |-> tombstone]

is_valid_inverted(v) == v.tombstone
is_valid(v) == ~v.tombstone

decode_raw_value(bytes) ==
  LET l1 == checked_sub(Len(bytes), U64_SIZE) IN
  IF l1 = None THEN None ELSE
  LET rest1 == l1.val
      status_slice == Slice(bytes, rest1, Len(bytes))
  IN
  IF status_slice = Panic THEN Panic ELSE
  LET s == unwrap_or_default(decode_u64(status_slice.val).res, Zero64)
      status == StatusCode_from(s)
      tombstone == IF is_tombstone(status) THEN TRUE ELSE FALSE
      l2 == checked_sub(rest1, U64_SIZE)
  IN
  IF l2 = None THEN None ELSE
  LET rest_len == l2.val
      ts_slice == Slice(bytes, rest_len, rest_len + U64_SIZE)
  IN
  IF ts_slice = Panic THEN Panic ELSE
  LET ts == unwrap_or_default(decode_u64(ts_slice.val).res, Zero64)
      user_value == Slice(bytes, 0, rest_len)
  IN
  IF user_value = Panic THEN Panic
  ELSE Some(RawValue(user_value.val, Some(ts), status, tombstone))

encode_raw_value(v) ==
  LET buf0 == v.user_value
      ts == unwrap_or_default(v.ts, Zero64)
      buf1 == encode_u64(buf0, ts)
      status == IF v.tombstone THEN insert(v.status, IS_TOMBSTONE) ELSE v.status
  IN encode_u64(buf1, bits(status))

encode_raw_value_owned_nofold(v) ==
  encode_u64(encode_u64(v.user_value, unwrap_or_default(v.ts, Zero64)), bits(v.status))
encode_raw_value_owned(v) ==
  LET buf1 == encode_u64(v.user_value, unwrap_or_default(v.ts, Zero64))
      status == IF v.tombstone THEN insert(v.status, IS_TOMBSTONE) ELSE v.status
  IN encode_u64(buf1, bits(status))

\* ------------------------------------------------------------------------
\* Inputs of the raw value format
\* ------------------------------------------------------------------------

ByteSamples == {0, 49, 255}

Payloads == UNION { [1..n -> ByteSamples] : n \in 0..MaxPayloadLen }

TsSamples ==
  { None, Some(Zero64), Some(<<0, 385, 7375, 12040>>),
    Some(<<65535, 65535, 65535, 65535>>) }

StatusSamples ==
  { GOOD,
    StatusCode(<<0, 0, 0, 123>>),
    IS_TOMBSTONE,
    StatusCode(<<32768, 0, 65535, 65535>>),
    StatusCode(<<16384 + 8192, 1, 0, 1>>),
    StatusCode(<<65535, 65535, 65535, 65535>>) }

RawValues ==
  { RawValue(p, t, s, d) : p \in Payloads, t \in TsSamples,
                           s \in StatusSamples, d \in BOOLEAN }

\* The byte strings a reader may be handed: what was written, or a prefix.
Stored == { e.val : e \in { x \in {encoded, encodedOwned} : x # None } }
Prefixes(b) == { SubSeq(b, 1, n) : n \in 0..Len(b) }

\* ------------------------------------------------------------------------
\* The raw value format as a state machine
\* ------------------------------------------------------------------------

Unset == [tag |-> "Unset"]

RawIdle ==
  /\ value = RawValue(<<>>, None, GOOD, FALSE)
  /\ encoded = None
  /\ encodedOwned = None
  /\ input = None
  /\ result = Unset

StatusIdle ==
  /\ plain = Zero64
  /\ reg = GOOD
  /\ code = None
  /\ op = "default"
  /\ prev = GOOD
  /\ seen = GOOD

Typed(ty, v) == [ty |-> ty, v |-> v]

NumIdle ==
  /\ na = Typed("u16", 0)
  /\ nb = Typed("u16", 0)
  /\ ea = None
  /\ eb = None
  /\ da = Unset

CursorIdle ==
  /\ written = <<>>
  /\ sink = <<>>
  /\ pc = "write"
  /\ cursor = <<>>
  /\ before = <<>>
  /\ last = Unset
  /\ nread = 0
  /\ inOrder = TRUE

Init ==
  /\ value \in RawValues
  /\ encoded = None
  /\ encodedOwned = None
  /\ input = None
  /\ result = Unset
  /\ StatusIdle
  /\ NumIdle
  /\ CursorIdle

EncodeRawValue ==
  /\ encoded = None
  /\ encoded' = Some(encode_raw_value(value))
  /\ UNCHANGED <<value, encodedOwned, input, result, stVars, numVars, curVars>>

EncodeRawValueOwned ==
  /\ encodedOwned = None
  /\ encodedOwned' = Some(encode_raw_value_owned(value))
  /\ UNCHANGED <<value, encoded, input, result, stVars, numVars, curVars>>

DecodeRawValue ==
  \E b \in UNION { Prefixes(s) : s \in Stored } :
    /\ input' = Some(b)
    /\ result' = decode_raw_value(b)
    /\ UNCHANGED <<value, encoded, encodedOwned, stVars, numVars, curVars>>

Next == EncodeRawValue \/ EncodeRawValueOwned \/ DecodeRawValue

Spec == Init /\ [][Next]_vars

\* ------------------------------------------------------------------------
\* The status code register as a state machine
\* ------------------------------------------------------------------------

IntSamples ==
  { Zero64, <<0, 0, 0, 64>>, <<0, 0, 0, 123>>, <<0, 0, 32768, 0>>,
    <<0, 0, 65535, 65535>>, <<0, 1, 0, 0>>, <<8192, 0, 0, 64>>,
    <<32768, 0, 0, 0>>, <<65535, 65535, 65535, 65535>> }

FlagSamples ==
  { IS_ERROR, IS_UNCERTAIN, IS_TOMBSTONE, SYSTEM_STATUS_MASK, USER_STATUS_MASK,
    StatusCode(<<0, 0, 0, 123>>), StatusCode(<<0, 4, 1, 0>>) }

StatusInit ==
  /\ plain \in IntSamples
  /\ reg = GOOD
  /\ code = None
  /\ op = "default"
  /\ prev = GOOD
  /\ seen = GOOD
  /\ RawIdle
  /\ NumIdle
  /\ CursorIdle

\* let s: StatusCode = x.into()
FromU64 ==
  /\ op = "default"
  /\ reg' = StatusCode_from(plain)
  /\ prev' = reg
  /\ seen' = system_status(reg')
  /\ op' = "from"
  /\ UNCHANGED <<plain, code, rawVars, numVars, curVars>>

\* s.insert(f)
Insert ==
  \E f \in FlagSamples :
    /\ reg' = insert(reg, f)
    /\ prev' = reg
    /\ seen' = BitOrStatus(seen, system_status(reg'))
    /\ op' = "insert"
    /\ UNCHANGED <<plain, code, rawVars, numVars, curVars>>

\* s.clear()
Clear ==
  /\ reg' = clear(reg)
  /\ prev' = reg
  /\ seen' = BitOrStatus(seen, system_status(reg'))
  /\ op' = "clear"
  /\ UNCHANGED <<plain, code, rawVars, numVars, curVars>>

\* let code: u64 = s.into()
IntoU64 ==
  /\ code' = Some(u64_from(reg))
  /\ prev' = reg
  /\ op' = "into"
  /\ UNCHANGED <<plain, reg, seen, rawVars, numVars, curVars>>

StatusNext == FromU64 \/ Insert \/ Clear \/ IntoU64

SpecStatus == StatusInit /\ [][StatusNext]_vars

\* ------------------------------------------------------------------------
\* The number codec, one value at a time
\* ------------------------------------------------------------------------

F64(neg, exp, mant) == [neg |-> neg, exp |-> exp, mant |-> mant]
F32(neg, exp, mant) == [neg |-> neg, exp |-> exp, mant |-> mant]
I64(neg, mag) == [neg |-> neg, mag |-> mag]

U16Samples == {0, 1, 255, 256, 1024, 32767, 32768, 65535}
I16Samples == {0 - 32768, 0 - 1024, 0 - 1, 0, 1, 255, 256, 32767}
U32Samples ==
  { <<0, 0>>, <<0, 1>>, <<0, 1024>>, <<1, 0>>, <<258, 772>>, <<32767, 65535>>,
    <<32768, 0>>, <<65535, 65535>> }
I32Samples ==
  {0 - 2147483647 - 1, 0 - 65536, 0 - 1024, 0 - 1, 0, 1, 256, 65536, 2147483647}
U64Samples ==
  { Zero64, <<0, 0, 0, 1>>, <<0, 0, 0, 1024>>, <<258, 772, 1286, 1800>>,
    <<32767, 65535, 65535, 65535>>, <<32768, 0, 0, 0>>,
    <<65535, 65535, 65535, 65535>> }
I64Samples ==
  { I64(TRUE, <<32768, 0, 0, 0>>), I64(TRUE, <<0, 1, 0, 0>>),
    I64(TRUE, <<0, 0, 1, 0>>), I64(TRUE, <<0, 0, 0, 1024>>),
    I64(TRUE, <<0, 0, 0, 1023>>), I64(TRUE, <<0, 0, 0, 1>>),
    I64(FALSE, Zero64), I64(FALSE, <<0, 0, 0, 1>>), I64(FALSE, <<0, 0, 0, 1024>>),
    I64(FALSE, <<0, 0, 1, 0>>), I64(FALSE, <<0, 1, 0, 0>>),
    I64(FALSE, <<32767, 65535, 65535, 65535>>) }
F32Samples ==
  { F32(TRUE, 255, 0), F32(TRUE, 254, 8388607), F32(TRUE, 127, 0),
    F32(TRUE, 0, 0), F32(FALSE, 0, 0), F32(FALSE, 0, 1), F32(FALSE, 1, 0),
    F32(FALSE, 127, 0), F32(FALSE, 128, 4788186), F32(FALSE, 254, 8388607),
    F32(FALSE, 255, 0), F32(FALSE, 255, 4194304) }
F64Samples ==
  { F64(TRUE, 2047, <<8, 0, 0, 0>>), F64(TRUE, 2047, <<0, 0, 0, 0>>),
    F64(TRUE, 2046, <<15, 65535, 65535, 65535>>),
    F64(TRUE, 1150, <<15, 65535, 57344, 0>>), F64(TRUE, 1023, <<0, 0, 0, 1>>),
    F64(TRUE, 1023, <<0, 0, 0, 0>>), F64(TRUE, 1, <<0, 0, 0, 0>>),
    F64(TRUE, 0, <<0, 0, 0, 1>>), F64(TRUE, 0, <<0, 0, 0, 0>>),
    F64(FALSE, 0, <<0, 0, 0, 0>>), F64(FALSE, 0, <<0, 0, 0, 1>>),
    F64(FALSE, 1, <<0, 0, 0, 0>>), F64(FALSE, 897, <<0, 0, 0, 0>>),
    F64(FALSE, 1023, <<0, 0, 0, 0>>), F64(FALSE, 1023, <<0, 0, 0, 1>>),
    F64(FALSE, 1150, <<15, 65535, 57344, 0>>),
    F64(FALSE, 2046, <<15, 65535, 65535, 65535>>),
    F64(FALSE, 2047, <<0, 0, 0, 0>>), F64(FALSE, 2047, <<8, 0, 0, 0>>) }

Samples(ty) ==
  CASE ty = "u16" -> U16Samples
    [] ty = "i16" -> I16Samples
    [] ty = "u32" -> U32Samples
    [] ty = "i32" -> I32Samples
    [] ty = "u64" -> U64Samples
    [] ty = "i64" -> I64Samples
    [] ty = "f32" -> F32Samples
    [] ty = "f64" -> F64Samples

Types == {"u16", "i16", "u32", "i32", "u64", "i64", "f32", "f64"}

NumInit ==
  /\ \E ty \in Types :
       /\ na \in { Typed(ty, v) : v \in Samples(ty) }
       /\ nb \in { Typed(ty, v) : v \in Samples(ty) }
  /\ ea = None
  /\ eb = None
  /\ da = Unset
  /\ RawIdle
  /\ StatusIdle
  /\ CursorIdle

\* let mut buf = vec![]; buf.encode_u16(v)
EncodeU16 ==
  /\ na.ty = "u16"
  /\ ea = None
  /\ ea' = Some(encode_u16(<<>>, na.v))
  /\ eb' = Some(encode_u16(<<>>, nb.v))
  /\ UNCHANGED <<na, nb, da, rawVars, stVars, curVars>>

\* decode_u16(&mut buf.as_slice())
DecodeU16 ==
  /\ na.ty = "u16"
  /\ ea # None
  /\ da = Unset
  /\ da' = decode_u16(ea.val)
  /\ UNCHANGED <<na, nb, ea, eb, rawVars, stVars, curVars>>

\* let mut buf = vec![]; buf.encode_i16(v)
EncodeI16 ==
  /\ na.ty = "i16"
  /\ ea = None
  /\ ea' = Some(encode_i16(<<>>, na.v))
  /\ eb' = Some(encode_i16(<<>>, nb.v))
  /\ UNCHANGED <<na, nb, da, rawVars, stVars, curVars>>

\* decode_i16(&mut buf.as_slice())
DecodeI16 ==
  /\ na.ty = "i16"
  /\ ea # None
  /\ da = Unset
  /\ da' = decode_i16(ea.val)
  /\ UNCHANGED <<na, nb, ea, eb, rawVars, stVars, curVars>>

\* let mut buf = vec![]; buf.encode_u32(v)
EncodeU32 ==
  /\ na.ty = "u32"
  /\ ea = None
  /\ ea' = Some(encode_u32(<<>>, na.v))
  /\ eb' = Some(encode_u32(<<>>, nb.v))
  /\ UNCHANGED <<na, nb, da, rawVars, stVars, curVars>>

\* decode_u32(&mut buf.as_slice())
DecodeU32 ==
  /\ na.ty = "u32"
  /\ ea # None
  /\ da = Unset
  /\ da' = decode_u32(ea.val)
  /\ UNCHANGED <<na, nb, ea, eb, rawVars, stVars, curVars>>

\* let mut buf = vec![]; buf.encode_i32(v)
EncodeI32 ==
  /\ na.ty = "i32"
  /\ ea = None
  /\ ea' = Some(encode_i32(<<>>, na.v))
  /\ eb' = Some(encode_i32(<<>>, nb.v))
  /\ UNCHANGED <<na, nb, da, rawVars, stVars, curVars>>

\* decode_i32(&mut buf.as_slice())
DecodeI32 ==
  /\ na.ty = "i32"
  /\ ea # None
  /\ da = Unset
  /\ da' = decode_i32(ea.val)
  /\ UNCHANGED <<na, nb, ea, eb, rawVars, stVars, curVars>>

\* let mut buf = vec![]; buf.encode_u64(v)
EncodeU64 ==
  /\ na.ty = "u64"
  /\ ea = None
  /\ ea' = Some(encode_u64(<<>>, na.v))
  /\ eb' = Some(encode_u64(<<>>, nb.v))
  /\ UNCHANGED <<na, nb, da, rawVars, stVars, curVars>>

\* decode_u64(&mut buf.as_slice())
DecodeU64 ==
  /\ na.ty = "u64"
  /\ ea # None
  /\ da = Unset
  /\ da' = decode_u64(ea.val)
  /\ UNCHANGED <<na, nb, ea, eb, rawVars, stVars, curVars>>

\* let mut buf = vec![]; buf.encode_i64(v)
EncodeI64 ==
  /\ na.ty = "i64"
  /\ ea = None
  /\ ea' = Some(encode_i64(<<>>, na.v))
  /\ eb' = Some(encode_i64(<<>>, nb.v))
  /\ UNCHANGED <<na, nb, da, rawVars, stVars, curVars>>

\* decode_i64(&mut buf.as_slice())
DecodeI64 ==
  /\ na.ty = "i64"
  /\ ea # None
  /\ da = Unset
  /\ da' = decode_i64(ea.val)
  /\ UNCHANGED <<na, nb, ea, eb, rawVars, stVars, curVars>>

\* let mut buf = vec![]; buf.encode_f32(v)
EncodeF32 ==
  /\ na.ty = "f32"
  /\ ea = None
  /\ ea' = Some(encode_f32(<<>>, na.v))
  /\ eb' = Some(encode_f32(<<>>, nb.v))
  /\ UNCHANGED <<na, nb, da, rawVars, stVars, curVars>>

\* decode_f32(&mut buf.as_slice())
DecodeF32 ==
  /\ na.ty = "f32"
  /\ ea # None
  /\ da = Unset
  /\ da' = decode_f32(ea.val)
  /\ UNCHANGED <<na, nb, ea, eb, rawVars, stVars, curVars>>

\* let mut buf = vec![]; buf.encode_f64(v)
EncodeF64 ==
  /\ na.ty = "f64"
  /\ ea = None
  /\ ea' = Some(encode_f64(<<>>, na.v))
  /\ eb' = Some(encode_f64(<<>>, nb.v))
  /\ UNCHANGED <<na, nb, da, rawVars, stVars, curVars>>

\* decode_f64(&mut buf.as_slice())
DecodeF64 ==
  /\ na.ty = "f64"
  /\ ea # None
  /\ da = Unset
  /\ da' = decode_f64(ea.val)
  /\ UNCHANGED <<na, nb, ea, eb, rawVars, stVars, curVars>>

NumNext ==
  \/ EncodeU16
  \/ DecodeU16
  \/ EncodeI16
  \/ DecodeI16
  \/ EncodeU32
  \/ DecodeU32
  \/ EncodeI32
  \/ DecodeI32
  \/ EncodeU64
  \/ DecodeU64
  \/ EncodeI64
  \/ DecodeI64
  \/ EncodeF32
  \/ DecodeF32
  \/ EncodeF64
  \/ DecodeF64

SpecNum == NumInit /\ [][NumNext]_vars

\* ------------------------------------------------------------------------
\* The number codec, values back-to-back in one buffer
\* ------------------------------------------------------------------------

encode(ty, b, v) ==
  CASE ty = "u16" -> encode_u16(b, v)
    [] ty = "i16" -> encode_i16(b, v)
    [] ty = "u32" -> encode_u32(b, v)
    [] ty = "i32" -> encode_i32(b, v)
    [] ty = "u64" -> encode_u64(b, v)
    [] ty = "i64" -> encode_i64(b, v)
    [] ty = "f32" -> encode_f32(b, v)
    [] ty = "f64" -> encode_f64(b, v)

decode(ty, d) ==
  CASE ty = "u16" -> decode_u16(d)
    [] ty = "i16" -> decode_i16(d)
    [] ty = "u32" -> decode_u32(d)
    [] ty = "i32" -> decode_i32(d)
    [] ty = "u64" -> decode_u64(d)
    [] ty = "i64" -> decode_i64(d)
    [] ty = "f32" -> decode_f32(d)
    [] ty = "f64" -> decode_f64(d)

\* The value of each type that is written: one at the odd positions of the
\* buffer, another at the even ones.
CursorSample(ty, k) ==
  CASE ty = "u16" -> IF k = 1 THEN 258 ELSE 65535
    [] ty = "i16" -> IF k = 1 THEN 0 - 2 ELSE 772
    [] ty = "u32" -> IF k = 1 THEN <<772, 1286>> ELSE <<0, 1>>
    [] ty = "i32" -> IF k = 1 THEN 0 - 1024 ELSE 65536
    [] ty = "u64" -> IF k = 1 THEN <<1, 2, 3, 4>> ELSE <<65535, 0, 0, 255>>
    [] ty = "i64" -> IF k = 1 THEN I64(TRUE, <<0, 0, 0, 1>>)
                     ELSE I64(FALSE, <<0, 0, 1, 0>>)
    [] ty = "f32" -> IF k = 1 THEN F32(FALSE, 127, 0) ELSE F32(TRUE, 128, 4788186)
    [] ty = "f64" -> IF k = 1 THEN F64(TRUE, 1023, <<0, 0, 0, 0>>)
                     ELSE F64(FALSE, 0, <<0, 0, 0, 1>>)

CursorInit ==
  /\ CursorIdle
  /\ RawIdle
  /\ StatusIdle
  /\ NumIdle

\* buf.encode_T(v), for any T
Put ==
  /\ pc = "write"
  /\ Len(written) < MaxVals
  /\ \E ty \in Types :
       LET v == CursorSample(ty, 1 + (Len(written) % 2)) IN
       /\ sink' = encode(ty, sink, v)
       /\ written' = Append(written, Typed(ty, v))
  /\ UNCHANGED <<pc, cursor, before, last, nread, inOrder, rawVars, stVars, numVars>>

\* let data = &mut buf.as_slice()
AsSlice ==
  /\ pc = "write"
  /\ pc' = "read"
  /\ cursor' = sink
  /\ UNCHANGED <<written, sink, before, last, nread, inOrder, rawVars, stVars, numVars>>

\* decode_T(data), for any T
Get ==
  /\ pc = "read"
  /\ \E ty \in Types :
       LET r == decode(ty, cursor) IN
       /\ cursor' = r.data
       /\ before' = cursor
       /\ last' = [ty |-> ty, res |-> r.res]
       /\ nread' = IF r.res.tag = "Ok" THEN nread + 1 ELSE nread
       /\ inOrder' = (/\ inOrder
                       /\ r.res.tag = "Ok"
                       /\ nread < Len(written)
                       /\ written[nread + 1].ty = ty)
  /\ UNCHANGED <<written, sink, pc, rawVars, stVars, numVars>>

CursorNext == Put \/ AsSlice \/ Get

SpecCursor == CursorInit /\ [][CursorNext]_vars

\* ------------------------------------------------------------------------
\* Properties of the raw value format (checked under Spec)
\* ------------------------------------------------------------------------

\* One byte of a big-endian u64, by position, independent of the encoder.
RefByte(w, i) ==
  LET limb == w[(i + 1) \div 2] IN IF i % 2 = 1 THEN limb \div 256 ELSE limb % 256
RefBE8(w) == [i \in 1..8 |-> RefByte(w, i)]

\* The timestamp and status the wire carries for a value.
WireTs(v) == IF v.ts = None THEN Zero64 ELSE v.ts.val
WireStatus(v) ==
  IF v.tombstone
    THEN [i \in 1..4 |-> BitOr(v.status.bits[i], IS_TOMBSTONE.bits[i])]
    ELSE v.status.bits

WholeInput == input # None /\ input.val \in Stored

\* C1: decoding the whole encoding of a value returns Some(r) with the
\* payload, Some(ts.unwrap_or(0)) and the status register with the tombstone
\* flag OR-ed in when the tombstone field was set, unchanged otherwise.
C1_RoundTrip ==
  WholeInput =>
    /\ result.tag = "Some"
    /\ result.val.user_value = value.user_value
    /\ result.val.ts = Some(WireTs(value))
    /\ result.val.status.bits = WireStatus(value)

C1_Witness ==
  /\ WholeInput
  /\ result.tag = "Some"
  /\ value.ts = None
  /\ value.tombstone
  /\ ~is_tombstone(value.status)
  /\ is_tombstone(result.val.status)
  /\ Len(value.user_value) > 0

\* C2: both encoders return payload ++ BE8(ts.unwrap_or(0)) ++ BE8(status
\* with the tombstone flag folded in), of length payload length + 16; so the
\* two agree byte for byte, and the empty value yields sixteen zero bytes.
C2_Reference ==
  LET ref == value.user_value \o RefBE8(WireTs(value)) \o RefBE8(WireStatus(value)) IN
  /\ encoded # None =>
       encoded.val = ref /\ Len(encoded.val) = Len(value.user_value) + 16
  /\ encodedOwned # None =>
       encodedOwned.val = ref /\ Len(encodedOwned.val) = Len(value.user_value) + 16
  /\ (encoded # None /\ encodedOwned # None) => encoded = encodedOwned
  /\ (encodedOwned # None /\ value = RawValue(<<>>, None, GOOD, FALSE)) =>
       encodedOwned.val = <<0, 0, 0, 0, 0, 0, 0, 0, 0, 0, 0, 0, 0, 0, 0, 0>>

C2_Witness ==
  /\ encoded # None
  /\ encodedOwned # None
  /\ value.tombstone
  /\ ~is_tombstone(value.status)
  /\ value.ts # None
  /\ Len(value.user_value) > 0

\* C3: every input of fewer than 16 bytes decodes to None, without a panic.
C3_Truncated ==
  (input # None /\ Len(input.val) < 16) => result = None

C3_Witness ==
  /\ input # None
  /\ Len(input.val) >= 8
  /\ Len(input.val) < 16
  /\ result = None

\* C4 as claimed: every RawValue, built by a caller or decoded, is valid
\* exactly when its status register lacks the deletion flag.
C4_AsClaimed ==
  /\ is_valid(value) = ~is_tombstone(value.status)
  /\ result.tag = "Some" => is_valid(result.val) = ~is_tombstone(result.val.status)

\* C4 as amended: a decoded RawValue is valid exactly when its status
\* register lacks the deletion flag; a RawValue built by a caller is valid
\* exactly when its tombstone field is unset, whatever its status register.
C4_DeletionFlag ==
  /\ result.tag = "Some" => is_valid(result.val) = ~is_tombstone(result.val.status)
  /\ is_valid(value) = (value.tombstone = FALSE)

C4_Witness ==
  /\ result.tag = "Some"
  /\ is_tombstone(result.val.status)
  /\ ~is_valid(result.val)
  /\ is_tombstone(value.status)
  /\ ~value.tombstone
  /\ is_valid(value)

\* ------------------------------------------------------------------------
\* Properties of the status code (checked under SpecStatus)
\* ------------------------------------------------------------------------

\* C5 as claimed: the StatusCode made from any plain integer has an empty
\* system segment, and the integer read back holds only user-segment bits.
C5_AsClaimed ==
  /\ op = "from" => system_status(reg) = GOOD
  /\ (op = "into" /\ code # None) => code.val = <<0, 0, reg.bits[3], reg.bits[4]>>

\* C5 as amended: the StatusCode made from a plain integer keeps all 64 bits
\* of it, so its system segment is empty only when the integer has no bit
\* above bit 31; the integer read back holds only user-segment bits.
C5_PlainInteger ==
  /\ op = "from" =>
       /\ bits(reg) = plain
       /\ (system_status(reg) = GOOD) = (plain[1] = 0 /\ plain[2] = 0)
  /\ (op = "into" /\ code # None) => code.val = <<0, 0, reg.bits[3], reg.bits[4]>>

C5_Witness ==
  /\ op = "into"
  /\ code # None
  /\ system_status(reg) # GOOD
  /\ user_status(reg) # GOOD
  /\ code.val # bits(reg)

AllOnes64 == <<LimbMax, LimbMax, LimbMax, LimbMax>>

\* C9: the two masks partition the 64 bits, and the two projections of
\* every register are disjoint and together give the register back.
C9_Masking ==
  /\ Or64(bits(SYSTEM_STATUS_MASK), bits(USER_STATUS_MASK)) = AllOnes64
  /\ And64(bits(SYSTEM_STATUS_MASK), bits(USER_STATUS_MASK)) = Zero64
  /\ Or64(bits(user_status(reg)), bits(system_status(reg))) = bits(reg)
  /\ And64(bits(user_status(reg)), bits(system_status(reg))) = Zero64
  /\ bits(user_status(reg)) = <<0, 0, reg.bits[3], reg.bits[4]>>
  /\ bits(system_status(reg)) = <<reg.bits[1], reg.bits[2], 0, 0>>

C9_Witness ==
  /\ reg.bits[3] >= 32768
  /\ reg.bits[2] % 2 = 1
  /\ reg.bits[1] # 0
  /\ reg.bits[4] # 0
  /\ reg.bits # AllOnes64

\* C10: clear() keeps the system segment and zeroes the user segment, and
\* no system bit the register ever held is lost by insert or clear.
C10_ClearKeepsSystem ==
  /\ op = "clear" => bits(reg) = <<prev.bits[1], prev.bits[2], 0, 0>>
  /\ \A i \in 1..2 : BitAnd(reg.bits[i], seen.bits[i]) = seen.bits[i]

C10_Witness ==
  /\ op = "clear"
  /\ prev.bits[1] # 0
  /\ prev.bits[2] # 0
  /\ prev.bits[3] # 0
  /\ prev.bits[4] # 0
  /\ prev.bits # AllOnes64

\* ------------------------------------------------------------------------
\* Properties of the number codec (checked under SpecNum and SpecCursor)
\* ------------------------------------------------------------------------

\* Unsigned lexicographic order of two sequences of one length.
LexLt(a, b) ==
  \E i \in 1..Len(a) : a[i] < b[i] /\ \A j \in 1..(i - 1) : a[j] = b[j]

\* Numeric order of i64 values.
I64Lt(a, b) ==
  CASE a.neg /\ ~b.neg -> TRUE
    [] ~a.neg /\ b.neg -> FALSE
    [] ~a.neg /\ ~b.neg -> LexLt(a.mag, b.mag)
    [] a.neg /\ b.neg -> LexLt(b.mag, a.mag)

\* IEEE 754 order of f64 values: false with a NaN, and between the zeros.
IsNaN(v) == v.exp = 2047 /\ v.mant # <<0, 0, 0, 0>>
IsZero(v) == v.exp = 0 /\ v.mant = <<0, 0, 0, 0>>
Magnitude(v) == <<v.exp>> \o v.mant
F64Lt(a, b) ==
  /\ ~IsNaN(a)
  /\ ~IsNaN(b)
  /\ ~(IsZero(a) /\ IsZero(b))
  /\ CASE a.neg /\ ~b.neg -> TRUE
       [] ~a.neg /\ b.neg -> FALSE
       [] ~a.neg /\ ~b.neg -> LexLt(Magnitude(a), Magnitude(b))
       [] a.neg /\ b.neg -> LexLt(Magnitude(b), Magnitude(a))

NumLt(a, b) ==
  CASE a.ty = "i64" -> I64Lt(a.v, b.v)
    [] a.ty = "f64" -> F64Lt(a.v, b.v)
    [] OTHER -> FALSE

\* size_of::<T>()
Width(ty) ==
  CASE ty \in {"u16", "i16"} -> 2
    [] ty \in {"u32", "i32", "f32"} -> 4
    [] ty \in {"u64", "i64", "f64"} -> 8

\* C6: for i64 values a < b, and for f64 values a < b neither a NaN, the
\* eight bytes encode_i64 / encode_f64 writes for a are below those for b in
\* unsigned lexicographic order.
C6_OrderPreserved ==
  (ea # None /\ NumLt(na, nb)) =>
    /\ Len(ea.val) = 8
    /\ Len(eb.val) = 8
    /\ LexLt(ea.val, eb.val)

C6_Witness ==
  /\ ea # None
  /\ na.ty = "f64"
  /\ na.v.neg
  /\ nb.v.neg
  /\ na.v.exp = 0
  /\ ~IsZero(na.v)
  /\ F64Lt(na.v, nb.v)
  /\ LexLt(ea.val, eb.val)

\* C7: encode_T(v) into an empty buffer writes exactly size_of(T) bytes,
\* and decode_T over them returns v (a float bit for bit) and uses them up.
C7_NumberRoundTrip ==
  /\ ea # None => Len(ea.val) = Width(na.ty) /\ Len(eb.val) = Width(nb.ty)
  /\ da # Unset => da.res = Ok(na.v) /\ da.data = <<>>

C7_Witness ==
  /\ da # Unset
  /\ na.ty = "i32"
  /\ na.v < 0
  /\ Len(ea.val) = 4
  /\ da.res = Ok(na.v)

\* C8: a decode_T of width N with at least N bytes left succeeds, reads
\* the first N bytes only and advances the cursor by N, so values written
\* back-to-back are read back in order; with fewer than N bytes left it
\* returns the unexpected-end-of-input error and leaves the cursor alone.
C8_Cursor ==
  /\ last # Unset =>
       LET N == Width(last.ty) IN
       IF Len(before) >= N
         THEN /\ last.res.tag = "Ok"
              /\ last.res = decode(last.ty, SubSeq(before, 1, N)).res
              /\ cursor = SubSeq(before, N + 1, Len(before))
              /\ Len(cursor) = Len(before) - N
         ELSE /\ last.res = EncoderUnexpectedEOF
              /\ cursor = before
  /\ (inOrder /\ nread >= 1) => last.res = Ok(written[nread].v)

C8_Witness ==
  /\ inOrder
  /\ nread = 2
  /\ written[1].ty # written[2].ty
  /\ last.res = Ok(written[2].v)
  /\ cursor = <<>>

====
